---- MODULE Spec2Model ----
(***************************************************************************)
(* Finite MDP simulator: finite_mdp/envs/finite_mdp.py                     *)
(*                                                                         *)
(* MDP / DeterministicMDP / StochasticMDP are the model (tables + current  *)
(* state); FiniteMDP is the gym environment (the "episode controller")     *)
(* that owns one model, a configuration dict, a step counter and a random  *)
(* source.                                                                 *)
(*                                                                         *)
(* Representation                                                          *)
(*  - a Python nested list is the function from its index tuples to its    *)
(*    entries: [[1],[0]] is (<<0,0>> :> 1 @@ <<1,0>> :> 0), [] is << >>;   *)
(*  - a numpy array is [shape, data]: data is the row-major buffer;        *)
(*  - a dict is a function whose DOMAIN is the set of its keys;            *)
(*  - real numbers (rewards, probabilities, rand() draws) are fixed-point  *)
(*    in units of 1/Unit: 1.0 is Unit, a draw of rand() is in 0..Unit-1;   *)
(*  - indices are 0-based as in Python, sequences are 1-based.             *)
(***************************************************************************)
EXTENDS Integers, Sequences, FiniteSets, TLC

\* ------------------------------------------------------------------ bounds
Unit == 2          \* fixed-point resolution of the reals
StepCap == 13      \* env.step is not called once steps has reached this
CopyStepCap == 2   \* the same, in the runs that also make a copy
RngPeriod == 3     \* number of distinguishable positions of a random source
MaxCalls == 2      \* step calls on a model since reset are counted up to this
MaxDraws == 4      \* randomize is called on models of at most this many entries

\* ---------------------------------------------------------- program constant
MAX_STEPS == 10

\* ------------------------------------------------------- lists and arrays
Front(s) == SubSeq(s, 1, Len(s) - 1)

RECURSIVE Ravel(_, _)
\* offset in the row-major buffer of the entry at index tuple p
Ravel(p, shape) ==
    IF Len(p) = 1 THEN p[1]
    ELSE Ravel(Front(p), Front(shape)) * shape[Len(shape)] + p[Len(p)]

RECURSIVE Unravel(_, _)
\* index tuple of the entry at offset n of the row-major buffer
Unravel(n, shape) ==
    IF Len(shape) = 1 THEN << n >>
    ELSE Append(Unravel(n \div shape[Len(shape)], Front(shape)),
                n % shape[Len(shape)])

RECURSIVE Product(_)
Product(s) == IF Len(s) = 0 THEN 1 ELSE Head(s) * Product(Tail(s))

\* the index tuples of an array of the given shape
Indices(shape) ==
    {p \in [1..Len(shape) -> 0..(Product(shape))] :
        \A k \in 1..Len(shape) : p[k] < shape[k]}

\* the lengths of the axes of a (rectangular) nested list; [] has one axis
ListShape(list) ==
    IF DOMAIN list = {} THEN << 0 >>
    ELSE LET depth == Len(CHOOSE p \in DOMAIN list : TRUE)
         IN  [k \in 1..depth |->
                1 + CHOOSE n \in {p[k] : p \in DOMAIN list} :
                       \A p \in DOMAIN list : p[k] <= n]

\* np.array(list)
NpArray(list) ==
    LET shape == ListShape(list)
    IN  [shape |-> shape,
         data  |-> [n \in 1..Product(shape) |-> list[Unravel(n - 1, shape)]]]

\* ndarray.tolist()
ToList(arr) ==
    [p \in Indices(arr.shape) |-> arr.data[Ravel(p, arr.shape) + 1]]

\* np.zeros(n)
NpZeros(n) == [shape |-> << n >>, data |-> [i \in 1..n |-> 0]]

\* np.size(arr)
NpSize(arr) == Len(arr.data)

\* np.shape(arr)[0]
Shape0(arr) == arr.shape[1]

\* arr[i] on a 1-d array raises IndexError unless this holds
InRange1(arr, i) ==
    Len(arr.shape) = 1 /\ i \in 0..(arr.shape[1] - 1)

\* arr[i, j] of a 2-d array (arr[i, j, :] of a 3-d one) raises IndexError
\* unless this holds
InRange2(arr, i, j) ==
    /\ Len(arr.shape) >= 2
    /\ i \in 0..(arr.shape[1] - 1)
    /\ j \in 0..(arr.shape[2] - 1)

\* arr[i] of a 1-d array
At1(arr, i) == arr.data[i + 1]

\* arr[i, j] of a 2-d array
At2(arr, i, j) == arr.data[i * arr.shape[2] + j + 1]

\* arr[i, j, :] of a 3-d array, as a sequence
Row3(arr, i, j) ==
    SubSeq(arr.data, (i * arr.shape[2] + j) * arr.shape[3] + 1,
                     (i * arr.shape[2] + j + 1) * arr.shape[3])

RECURSIVE SumSeq(_)
SumSeq(s) == IF Len(s) = 0 THEN 0 ELSE Head(s) + SumSeq(Tail(s))

\* ------------------------------------------------------------------ dicts
EmptyList == << >>
NoMode == "None"

\* config.get(key, default)
Get(config, key, default) ==
    IF key \in DOMAIN config THEN config[key] ELSE default

\* dict.update: the keys of other override those of config
DictUpdate(config, other) ==
    [k \in (DOMAIN config) \cup (DOMAIN other) |->
        IF k \in DOMAIN other THEN other[k] ELSE config[k]]

\* -------------------------------------------------------------- the model
\* the value of a name bound to no model (an exception left it unbound)
NoMdp == [variant |-> "none"]
\* the value of a call that raised instead of returning
NoRet == [raised |-> TRUE]

\* position of a random source after drawing n values
Advance(rng, n) == (rng + n) % RngPeriod

\* DeterministicMDP.__init__ defaulting terminal whatever it is given
DeterministicMDP_always_default(transition, reward, terminal) ==
    [variant    |-> "deterministic",
     state      |-> 0,
     transition |-> transition,
     reward     |-> reward,
     terminal   |-> NpZeros(Shape0(transition))]

\* DeterministicMDP.__init__ keeping the terminal it is given, empty or not
DeterministicMDP_no_default(transition, reward, terminal) ==
    [variant    |-> "deterministic",
     state      |-> 0,
     transition |-> transition,
     reward     |-> reward,
     terminal   |-> terminal]

\* MDP.__init__ and DeterministicMDP.__init__: state 0, the three tables,
\* terminal defaulted to zeros over the first axis when it has no element
DeterministicMDP(transition, reward, terminal) ==
    [variant    |-> "deterministic",
     state      |-> 0,
     transition |-> transition,
     reward     |-> reward,
     terminal   |-> IF NpSize(terminal) = 0
                    THEN NpZeros(Shape0(transition))
                    ELSE terminal]

\* StochasticMDP.__init__: the same fields, the other class
StochasticMDP(transition, reward, terminal) ==
    [DeterministicMDP(transition, reward, terminal)
        EXCEPT !.variant = "stochastic"]

\* MDP.reset
reset(mdp) == [mdp EXCEPT !.state = 0]

\* DeterministicMDP.to_config
DeterministicMDP_to_config(mdp) ==
    ("mode" :> "deterministic")
    @@ ("transition" :> ToList(mdp.transition))
    @@ ("reward" :> ToList(mdp.reward))
    @@ ("terminal" :> ToList(mdp.terminal))

\* StochasticMDP.to_config
StochasticMDP_to_config(mdp) ==
    DictUpdate(DeterministicMDP_to_config(mdp), ("mode" :> "stochastic"))

to_config(mdp) ==
    IF mdp.variant = "stochastic"
    THEN StochasticMDP_to_config(mdp)
    ELSE DeterministicMDP_to_config(mdp)

\* the result tuple of step
StepRet(mdp, reward, done) ==
    [raised |-> FALSE, state |-> mdp.state, reward |-> reward,
     done |-> done, info |-> to_config(mdp)]

\* DeterministicMDP.step reading the terminal flag of the state entered
DeterministicMDP_step_done_after(mdp, action, rng) ==
    IF /\ InRange2(mdp.reward, mdp.state, action)
       /\ InRange1(mdp.terminal, mdp.state)
       /\ InRange2(mdp.transition, mdp.state, action)
    THEN LET reward == At2(mdp.reward, mdp.state, action)
             next   == [mdp EXCEPT
                          !.state = At2(mdp.transition, mdp.state, action)]
             done   == At1(mdp.terminal, next.state)
         IN  {[raised |-> "none", mdp |-> next, rng |-> rng,
               ret |-> StepRet(next, reward, done)]}
    ELSE {[raised |-> "IndexError", mdp |-> mdp, rng |-> rng, ret |-> NoRet]}

\* DeterministicMDP.step: the outcome [raised, mdp, rng, ret]; an index out
\* of range raises IndexError before anything is assigned
DeterministicMDP_step(mdp, action, rng) ==
    IF /\ InRange2(mdp.reward, mdp.state, action)
       /\ InRange1(mdp.terminal, mdp.state)
       /\ InRange2(mdp.transition, mdp.state, action)
    THEN LET reward == At2(mdp.reward, mdp.state, action)
             done   == At1(mdp.terminal, mdp.state)
             next   == [mdp EXCEPT
                          !.state = At2(mdp.transition, mdp.state, action)]
         IN  {[raised |-> "none", mdp |-> next, rng |-> rng,
               ret |-> StepRet(next, reward, done)]}
    ELSE {[raised |-> "IndexError", mdp |-> mdp, rng |-> rng, ret |-> NoRet]}

\* np_random.choice drawing among all the indices, whatever their weight
Choice_uniform(n, probs) ==
    IF /\ Len(probs) = n
       /\ \A i \in 1..n : probs[i] >= 0
       /\ SumSeq(probs) = Unit
    THEN 0..(n - 1)
    ELSE {}

\* np_random.choice(np.arange(n), p=probs): the indices it can return; it
\* raises ValueError (the empty set here) unless probs has n entries, none
\* negative, summing to 1
Choice(n, probs) ==
    IF /\ Len(probs) = n
       /\ \A i \in 1..n : probs[i] >= 0
       /\ SumSeq(probs) = Unit
    THEN {i \in 0..(n - 1) : probs[i + 1] > 0}
    ELSE {}

\* StochasticMDP.step: the set of outcomes over the draws of the source
StochasticMDP_step(mdp, action, rng) ==
    IF /\ InRange2(mdp.reward, mdp.state, action)
       /\ Len(mdp.transition.shape) = 3
       /\ InRange2(mdp.transition, mdp.state, action)
       /\ InRange1(mdp.terminal, mdp.state)
    THEN LET reward == At2(mdp.reward, mdp.state, action)
             probs  == Row3(mdp.transition, mdp.state, action)
             done   == At1(mdp.terminal, mdp.state)
             drawn  == Choice(Shape0(mdp.transition), probs)
         IN  IF drawn = {}
             THEN {[raised |-> "ValueError", mdp |-> mdp, rng |-> rng,
                    ret |-> NoRet]}
             ELSE {[raised |-> "none",
                    mdp |-> [mdp EXCEPT !.state = n],
                    rng |-> Advance(rng, 1),
                    ret |-> StepRet([mdp EXCEPT !.state = n], reward, done)]
                   : n \in drawn}
    ELSE {[raised |-> "IndexError", mdp |-> mdp, rng |-> rng, ret |-> NoRet]}

step(mdp, action, rng) ==
    IF mdp.variant = "stochastic"
    THEN StochasticMDP_step(mdp, action, rng)
    ELSE DeterministicMDP_step(mdp, action, rng)

\* the arrays of a given shape whose entries are drawn from vals
Drawn(shape, size, vals) ==
    {[shape |-> shape, data |-> d] : d \in [1..size -> vals]}

\* DeterministicMDP.randomize drawing the targets from 0 .. S inclusive
DeterministicMDP_randomize_inclusive(mdp, rng) ==
    {[mdp |-> [mdp EXCEPT !.transition = t, !.reward = r],
      rng |-> Advance(rng, NpSize(mdp.transition) + NpSize(mdp.reward))]
     : t \in Drawn(mdp.transition.shape, NpSize(mdp.transition),
                   0..Shape0(mdp.transition)),
       r \in Drawn(mdp.reward.shape, NpSize(mdp.reward), 0..(Unit - 1))}

\* DeterministicMDP.randomize: the outcomes [mdp, rng]
DeterministicMDP_randomize(mdp, rng) ==
    {[mdp |-> [mdp EXCEPT !.transition = t, !.reward = r],
      rng |-> Advance(rng, NpSize(mdp.transition) + NpSize(mdp.reward))]
     : t \in Drawn(mdp.transition.shape, NpSize(mdp.transition),
                   0..(Shape0(mdp.transition) - 1)),
       r \in Drawn(mdp.reward.shape, NpSize(mdp.reward), 0..(Unit - 1))}

\* StochasticMDP.randomize: the outcomes [mdp, rng]
StochasticMDP_randomize(mdp, rng) ==
    {[mdp |-> [mdp EXCEPT !.transition = t, !.reward = r],
      rng |-> Advance(rng, NpSize(mdp.transition) + NpSize(mdp.reward))]
     : t \in Drawn(mdp.transition.shape, NpSize(mdp.transition),
                   0..(Unit - 1)),
       r \in Drawn(mdp.reward.shape, NpSize(mdp.reward), 0..(Unit - 1))}

randomize(mdp, rng) ==
    IF mdp.variant = "stochastic"
    THEN StochasticMDP_randomize(mdp, rng)
    ELSE DeterministicMDP_randomize(mdp, rng)

\* DeterministicMDP.update putting the model back to state 0 as a rebuild
\* would
update_from_start(mdp, config) ==
    [mdp EXCEPT
       !.state      = 0,
       !.transition = IF "transition" \in DOMAIN config
                      THEN NpArray(config["transition"]) ELSE @,
       !.reward     = IF "reward" \in DOMAIN config
                      THEN NpArray(config["reward"]) ELSE @,
       !.terminal   = IF "terminal" \in DOMAIN config
                      THEN NpArray(config["terminal"]) ELSE @]

\* DeterministicMDP.update (inherited by StochasticMDP)
update(mdp, config) ==
    [mdp EXCEPT
       !.transition = IF "transition" \in DOMAIN config
                      THEN NpArray(config["transition"]) ELSE @,
       !.reward     = IF "reward" \in DOMAIN config
                      THEN NpArray(config["reward"]) ELSE @,
       !.terminal   = IF "terminal" \in DOMAIN config
                      THEN NpArray(config["terminal"]) ELSE @]

\* MDP.from_config building a stochastic model for any mode that is not
\* "deterministic"
from_config_no_raise(config, rng) ==
    LET mode       == Get(config, "mode", NoMode)
        transition == NpArray(Get(config, "transition", EmptyList))
        reward     == NpArray(Get(config, "reward", EmptyList))
        terminal   == NpArray(Get(config, "terminal", EmptyList))
        built      == IF mode = "deterministic"
                      THEN DeterministicMDP(transition, reward, terminal)
                      ELSE StochasticMDP(transition, reward, terminal)
    IN  IF Get(config, "random", FALSE)
        THEN {[raised |-> "none", mdp |-> o.mdp, rng |-> o.rng]
              : o \in randomize(built, rng)}
        ELSE {[raised |-> "none", mdp |-> built, rng |-> rng]}

\* MDP.from_config: the outcomes [raised, mdp, rng]
from_config(config, rng) ==
    LET mode       == Get(config, "mode", NoMode)
        transition == NpArray(Get(config, "transition", EmptyList))
        reward     == NpArray(Get(config, "reward", EmptyList))
        terminal   == NpArray(Get(config, "terminal", EmptyList))
        built      == IF mode = "deterministic"
                      THEN DeterministicMDP(transition, reward, terminal)
                      ELSE StochasticMDP(transition, reward, terminal)
    IN  IF mode \notin {"deterministic", "stochastic"}
        THEN {[raised |-> "ValueError", mdp |-> NoMdp, rng |-> rng]}
        ELSE IF Get(config, "random", FALSE)
        THEN {[raised |-> "none", mdp |-> o.mdp, rng |-> o.rng]
              : o \in randomize(built, rng)}
        ELSE {[raised |-> "none", mdp |-> built, rng |-> rng]}

\* StochasticMDP.from_deterministic putting the probability on the state
\* being left instead of the target of the transition
from_deterministic_self_loop(mdp) ==
    LET S == mdp.transition.shape[1]
        A == mdp.transition.shape[2]
        new_transition ==
            [shape |-> << S, A, S >>,
             data  |-> [k \in 1..(S * A * S) |->
                          IF (k - 1) % S = (k - 1) \div (A * S)
                          THEN Unit ELSE 0]]
    IN  StochasticMDP(new_transition, mdp.reward, mdp.terminal)

\* StochasticMDP.from_deterministic
from_deterministic(mdp) ==
    LET S == mdp.transition.shape[1]
        A == mdp.transition.shape[2]
        new_transition ==
            [shape |-> << S, A, S >>,
             data  |-> [k \in 1..(S * A * S) |->
                          IF (k - 1) % S
                               = mdp.transition.data[((k - 1) \div S) + 1]
                          THEN Unit ELSE 0]]
    IN  StochasticMDP(new_transition, mdp.reward, mdp.terminal)

\* ------------------------------------------------------------ input tables
\* the list written as a nested sequence of depth 1, 2, 3
L1(rows) == [p \in {<< i - 1 >> : i \in 1..Len(rows)} |-> rows[p[1] + 1]]
L2(rows) ==
    [p \in UNION {{<< i - 1, j - 1 >> : j \in 1..Len(rows[i])}
                  : i \in 1..Len(rows)}
       |-> rows[p[1] + 1][p[2] + 1]]
L3(rows) ==
    [p \in UNION {UNION {{<< i - 1, j - 1, k - 1 >>
                           : k \in 1..Len(rows[i][j])}
                         : j \in 1..Len(rows[i])}
                  : i \in 1..Len(rows)}
       |-> rows[p[1] + 1][p[2] + 1][p[3] + 1]]

TD1 == L2(<< <<0>> >>)                         \* S = 1, A = 1
TD2 == L2(<< <<1>>, <<0>> >>)                  \* S = 2, A = 1
TD3 == L2(<< <<0, 1>>, <<1, 1>> >>)            \* S = 2, A = 2
TS1 == L3(<< << <<Unit>> >> >>)                \* S = 1, A = 1
TS2 == L3(<< << <<0, Unit>> >>, << <<1, Unit - 1>> >> >>)   \* S = 2, A = 1
R1  == L2(<< <<0>> >>)
R2  == L2(<< <<5 * Unit>>, <<1 * Unit>> >>)
R2b == L2(<< <<1>>, <<3 * Unit>> >>)
R3  == L2(<< <<1 * Unit, 2 * Unit>>, <<3 * Unit, 4 * Unit>> >>)
K1  == L1(<<1>>)
K2  == L1(<<0, 1>>)
K2b == L1(<<1, 0>>)

\* the configurations handed to configure and copy_with_config
PartialConfigs ==
    { ("mode" :> "deterministic") @@ ("transition" :> TD2)
          @@ ("reward" :> R2) @@ ("terminal" :> K2) @@ ("random" :> FALSE),
      ("mode" :> "stochastic") @@ ("transition" :> TS2) @@ ("reward" :> R2)
          @@ ("random" :> FALSE),
      ("mode" :> "stochastic") @@ ("transition" :> TS1) @@ ("reward" :> R1)
          @@ ("random" :> TRUE),
      ("reward" :> R2b),
      ("mode" :> "bogus"),
      ("mode" :> "deterministic") }

\* the actions handed to step: 0 .. MaxAction
MaxAction == 1

\* -------------------------------------------------------------- the state
VARIABLES
    dicts,   \* the configuration dict objects, by identity
    env,     \* the environments: "o" and the copy "c" made from it
    ret,     \* what the last call on an environment returned or raised
    cfg,     \* a configuration handed to MDP.from_config
    m,       \* a model used on its own
    st,      \* the stochastic model converted from m
    mrng,    \* the random source handed to the calls on m and st
    mret,    \* what the last call on m (and st) returned or raised
    calls    \* step calls on m since reset with the tables untouched

evars == << dicts, env, ret >>
mvars == << cfg, m, st, mrng, mret, calls >>
vars == << dicts, env, ret, cfg, m, st, mrng, mret, calls >>

Envs == {"o", "c"}
NoEnv == [config |-> 0]
Exists(e) == env[e].config # 0

\* FiniteMDP.default_config
default_config ==
    ("mode" :> "deterministic") @@ ("transition" :> TD1) @@ ("reward" :> R1)

\* a deterministic model whose transition table has a third axis steps to
\* an array, not to a state index: such a model is outside the inputs
Modelled(mdp) ==
    ~(mdp.variant = "deterministic" /\ Len(mdp.transition.shape) > 2)

\* FiniteMDP.__init__: seed, default_config, load_config, reset
InitEnv ==
    /\ dicts = [i \in 1..2 |-> IF i = 1 THEN default_config ELSE << >>]
    /\ env = [e \in Envs |->
                IF e = "o"
                THEN [config |-> 1,
                      mdp |-> reset(DeterministicMDP(NpArray(TD1), NpArray(R1),
                                                     NpArray(EmptyList))),
                      steps |-> 0,
                      np_random |-> 0]
                ELSE NoEnv]
    /\ ret = [op |-> "init", env |-> "o", raised |-> "none"]

\* no model is used on its own
NoBench ==
    /\ cfg = << >>
    /\ m = NoMdp
    /\ st = NoMdp
    /\ mrng = 0
    /\ mret = [op |-> "none"]
    /\ calls = 0

Init == InitEnv /\ NoBench

\* FiniteMDP.configure applying the argument to the model in place, as
\* copy_with_config does, instead of rebuilding it
configure_in_place(e, config) ==
    /\ Exists(e)
    /\ LET cell   == env[e].config
           merged == DictUpdate(dicts[cell], config)
       IN  /\ dicts' = [dicts EXCEPT ![cell] = merged]
           /\ \E out \in from_config(merged, env[e].np_random) :
                /\ out.raised = "none" => Modelled(out.mdp)
                /\ env' = [env EXCEPT
                             ![e].mdp = IF out.raised = "none"
                                        THEN update(@, config) ELSE @,
                             ![e].np_random = out.rng]
                /\ ret' = [op |-> "configure", env |-> e,
                           raised |-> out.raised, arg |-> config]

\* FiniteMDP.configure starting a new episode as reset does
configure_new_episode(e, config) ==
    /\ Exists(e)
    /\ LET cell   == env[e].config
           merged == DictUpdate(dicts[cell], config)
       IN  /\ dicts' = [dicts EXCEPT ![cell] = merged]
           /\ \E out \in from_config(merged, env[e].np_random) :
                /\ out.raised = "none" => Modelled(out.mdp)
                /\ env' = [env EXCEPT
                             ![e].mdp = IF out.raised = "none"
                                        THEN out.mdp ELSE @,
                             ![e].steps = 0,
                             ![e].np_random = out.rng]
                /\ ret' = [op |-> "configure", env |-> e,
                           raised |-> out.raised, arg |-> config]

\* FiniteMDP.configure with FiniteMDP.load_config: the dict is updated in
\* place, then the model is rebuilt from it; when from_config raises, the
\* assignment to self.mdp does not happen
configure(e, config) ==
    /\ Exists(e)
    /\ LET cell   == env[e].config
           merged == DictUpdate(dicts[cell], config)
       IN  /\ dicts' = [dicts EXCEPT ![cell] = merged]
           /\ \E out \in from_config(merged, env[e].np_random) :
                /\ out.raised = "none" => Modelled(out.mdp)
                /\ env' = [env EXCEPT
                             ![e].mdp = IF out.raised = "none"
                                        THEN out.mdp ELSE @,
                             ![e].np_random = out.rng]
                /\ ret' = [op |-> "configure", env |-> e,
                           raised |-> out.raised, arg |-> config]

\* FiniteMDP.copy_with_config resetting the copy
copy_with_config_reset(own, config) ==
    /\ Exists("o")
    /\ LET cell == IF own THEN env["o"].config ELSE 2
           arg  == IF own THEN dicts[env["o"].config] ELSE config
       IN  /\ Modelled(update(env["o"].mdp, arg))
           /\ dicts' = [dicts EXCEPT ![2] = IF own THEN << >> ELSE config]
           /\ env' = [env EXCEPT
                        !["c"] = [config |-> cell,
                                  mdp |-> reset(update(env["o"].mdp, arg)),
                                  steps |-> 0,
                                  np_random |-> env["o"].np_random]]
           /\ ret' = [op |-> "copy_with_config", env |-> "c",
                      raised |-> "none", arg |-> arg]

\* FiniteMDP.copy_with_config called on "o": own says that the argument is
\* o's own configuration dict, otherwise it is a dict of the caller's
copy_with_config(own, config) ==
    /\ Exists("o")
    /\ LET cell == IF own THEN env["o"].config ELSE 2
           arg  == IF own THEN dicts[env["o"].config] ELSE config
       IN  /\ Modelled(update(env["o"].mdp, arg))
           /\ dicts' = [dicts EXCEPT ![2] = IF own THEN << >> ELSE config]
           /\ env' = [env EXCEPT
                        !["c"] = [config |-> cell,
                                  mdp |-> update(env["o"].mdp, arg),
                                  steps |-> env["o"].steps,
                                  np_random |-> env["o"].np_random]]
           /\ ret' = [op |-> "copy_with_config", env |-> "c",
                      raised |-> "none", arg |-> arg]

\* FiniteMDP.reset
env_reset(e) ==
    /\ Exists(e)
    /\ env' = [env EXCEPT ![e].steps = 0, ![e].mdp = reset(@)]
    /\ ret' = [op |-> "reset", env |-> e, raised |-> "none", state |-> 0]
    /\ UNCHANGED dicts

\* FiniteMDP.step starting a new episode by itself once it reports done
env_step_auto_reset(e, action) ==
    /\ Exists(e)
    /\ \E out \in step(env[e].mdp, action, env[e].np_random) :
         LET done == out.raised = "none"
                       /\ (out.ret.done # 0 \/ env[e].steps > MAX_STEPS)
         IN  /\ env' = [env EXCEPT
                          ![e].mdp = IF done THEN reset(out.mdp) ELSE out.mdp,
                          ![e].np_random = out.rng,
                          ![e].steps = IF done THEN 0
                                       ELSE IF out.raised = "none"
                                       THEN @ + 1 ELSE @]
             /\ ret' = IF out.raised = "none"
                       THEN [op |-> "step", env |-> e, raised |-> "none",
                             action |-> action,
                             state |-> out.ret.state,
                             reward |-> out.ret.reward,
                             done |-> done,
                             info |-> out.ret.info]
                       ELSE [op |-> "step", env |-> e, raised |-> out.raised,
                             action |-> action]
    /\ UNCHANGED dicts

\* FiniteMDP.step forcing done once the counter has reached MAX_STEPS
env_step_at_max(e, action) ==
    /\ Exists(e)
    /\ \E out \in step(env[e].mdp, action, env[e].np_random) :
         /\ env' = [env EXCEPT
                      ![e].mdp = out.mdp,
                      ![e].np_random = out.rng,
                      ![e].steps = IF out.raised = "none" THEN @ + 1 ELSE @]
         /\ ret' = IF out.raised = "none"
                   THEN [op |-> "step", env |-> e, raised |-> "none",
                         action |-> action,
                         state |-> out.ret.state,
                         reward |-> out.ret.reward,
                         done |-> (out.ret.done # 0
                                     \/ env[e].steps >= MAX_STEPS),
                         info |-> out.ret.info]
                   ELSE [op |-> "step", env |-> e, raised |-> out.raised,
                         action |-> action]
    /\ UNCHANGED dicts

\* FiniteMDP.step: an exception of the model's step leaves the counter as
\* it was; done is the model's flag or the counter being above MAX_STEPS
env_step(e, action) ==
    /\ Exists(e)
    /\ \E out \in step(env[e].mdp, action, env[e].np_random) :
         /\ env' = [env EXCEPT
                      ![e].mdp = out.mdp,
                      ![e].np_random = out.rng,
                      ![e].steps = IF out.raised = "none" THEN @ + 1 ELSE @]
         /\ ret' = IF out.raised = "none"
                   THEN [op |-> "step", env |-> e, raised |-> "none",
                         action |-> action,
                         state |-> out.ret.state,
                         reward |-> out.ret.reward,
                         done |-> (out.ret.done # 0
                                     \/ env[e].steps > MAX_STEPS),
                         info |-> out.ret.info]
                   ELSE [op |-> "step", env |-> e, raised |-> out.raised,
                         action |-> action]
    /\ UNCHANGED dicts

Configure ==
    \E p \in PartialConfigs : configure("o", p) /\ UNCHANGED mvars
Reset == env_reset("o") /\ UNCHANGED mvars
Step ==
    \E a \in 0..MaxAction :
        env["o"].steps < StepCap /\ env_step("o", a) /\ UNCHANGED mvars

Next == Configure \/ Reset \/ Step

\* one environment, episodes long enough to pass MAX_STEPS
Spec == Init /\ [][Next]_vars

\* the configurations handed to configure and copy_with_config in the runs
\* that make a copy
CopyConfigs ==
    { ("mode" :> "deterministic") @@ ("transition" :> TD2)
          @@ ("reward" :> R2) @@ ("terminal" :> K2) @@ ("random" :> FALSE),
      ("mode" :> "stochastic") @@ ("transition" :> TS2) @@ ("reward" :> R2)
          @@ ("random" :> FALSE),
      ("transition" :> TD1) @@ ("reward" :> R1) @@ ("terminal" :> K1) }

\* the original is configured once and driven until the copy is made, the
\* copy is driven afterwards
FirstConfigure ==
    \E p \in CopyConfigs :
        /\ ~Exists("c")
        /\ dicts[env["o"].config] = default_config
        /\ configure("o", p)
        /\ UNCHANGED mvars
FirstReset == ~Exists("c") /\ env_reset("o") /\ UNCHANGED mvars
FirstStep ==
    \E a \in 0..MaxAction :
        /\ ~Exists("c")
        /\ env["o"].steps < CopyStepCap
        /\ env_step("o", a)
        /\ UNCHANGED mvars
Copy ==
    \E p \in CopyConfigs : copy_with_config(FALSE, p) /\ UNCHANGED mvars
CopyOwn == copy_with_config(TRUE, << >>) /\ UNCHANGED mvars
CopyConfigure ==
    \E p \in CopyConfigs : configure("c", p) /\ UNCHANGED mvars
CopyReset == env_reset("c") /\ UNCHANGED mvars
CopyStep ==
    \E a \in 0..MaxAction :
        /\ Exists("c")
        /\ env["c"].steps < CopyStepCap
        /\ env_step("c", a)
        /\ UNCHANGED mvars

NextCopy ==
    \/ FirstConfigure \/ FirstReset \/ FirstStep
    \/ Copy \/ CopyOwn
    \/ CopyConfigure \/ CopyReset \/ CopyStep

\* an environment and its copy, short episodes
SpecCopy == Init /\ [][NextCopy]_vars


\* ------------------------------------------- from_config and to_config
\* the configurations handed to from_config: every choice of a mode, of a
\* table or none for each key, and of the random flag
AllConfigs ==
    { DictUpdate(DictUpdate(DictUpdate(DictUpdate(mo, tr), re), te), ra)
      : mo \in { << >>, ("mode" :> "deterministic"),
                 ("mode" :> "stochastic"), ("mode" :> "bogus") },
        tr \in { << >>, ("transition" :> TD1), ("transition" :> TD2),
                 ("transition" :> TS1), ("transition" :> TS2) },
        re \in { << >>, ("reward" :> R1), ("reward" :> R2) },
        te \in { << >>, ("terminal" :> EmptyList), ("terminal" :> K1),
                 ("terminal" :> K2) },
        ra \in { << >>, ("random" :> TRUE), ("random" :> FALSE) } }

InitConfig ==
    /\ InitEnv
    /\ cfg \in AllConfigs
    /\ m = NoMdp
    /\ st = NoMdp
    /\ mrng \in 0..(RngPeriod - 1)
    /\ mret = [op |-> "none"]
    /\ calls = 0

\* mdp = MDP.from_config(cfg, np_random)
FromConfig ==
    /\ mret.op = "none"
    /\ \E out \in from_config(cfg, mrng) :
         /\ m' = out.mdp
         /\ mrng' = out.rng
         /\ mret' = [op |-> "from_config", raised |-> out.raised]
    /\ UNCHANGED << cfg, st, calls >>
    /\ UNCHANGED evars

\* mdp.to_config() on the model just built
ToConfig ==
    /\ mret.op = "from_config"
    /\ mret.raised = "none"
    /\ mret' = [op |-> "to_config", raised |-> "none", value |-> to_config(m)]
    /\ UNCHANGED << cfg, m, st, mrng, calls >>
    /\ UNCHANGED evars

NextConfig == FromConfig \/ ToConfig

\* a model is built from a configuration and written back to one
SpecConfig == InitConfig /\ [][NextConfig]_vars

\* ------------------------------------------------- a model on its own
\* a deterministic model as the docstring of DeterministicMDP.__init__ has
\* it: transition S x A of state indices, reward S x A, terminal S
WellFormedDeterministic(mdp) ==
    /\ mdp.variant = "deterministic"
    /\ Len(mdp.transition.shape) = 2
    /\ mdp.transition.shape[1] >= 1
    /\ mdp.transition.shape[2] >= 1
    /\ \A k \in 1..NpSize(mdp.transition) :
         mdp.transition.data[k] \in 0..(mdp.transition.shape[1] - 1)
    /\ mdp.reward.shape = mdp.transition.shape
    /\ mdp.terminal.shape = << mdp.transition.shape[1] >>

\* a stochastic model as the docstring of StochasticMDP.__init__ has it:
\* transition S x A x S, every row a distribution, reward S x A, terminal S
WellFormedStochastic(mdp) ==
    /\ mdp.variant = "stochastic"
    /\ Len(mdp.transition.shape) = 3
    /\ mdp.transition.shape[1] >= 1
    /\ mdp.transition.shape[2] >= 1
    /\ mdp.transition.shape[3] = mdp.transition.shape[1]
    /\ \A k \in 1..NpSize(mdp.transition) : mdp.transition.data[k] >= 0
    /\ \A s \in 0..(mdp.transition.shape[1] - 1) :
         \A a \in 0..(mdp.transition.shape[2] - 1) :
            SumSeq(Row3(mdp.transition, s, a)) = Unit
    /\ mdp.reward.shape = << mdp.transition.shape[1], mdp.transition.shape[2] >>
    /\ mdp.terminal.shape = << mdp.transition.shape[1] >>

WellFormed(mdp) == WellFormedDeterministic(mdp) \/ WellFormedStochastic(mdp)

\* the configurations the models used on their own are built from
WellFormedConfigs ==
    { DictUpdate(tables, te)
      : tables \in
          { ("mode" :> "deterministic") @@ ("transition" :> TD1)
                @@ ("reward" :> R1),
            ("mode" :> "deterministic") @@ ("transition" :> TD2)
                @@ ("reward" :> R2),
            ("mode" :> "deterministic") @@ ("transition" :> TD3)
                @@ ("reward" :> R3),
            ("mode" :> "stochastic") @@ ("transition" :> TS1)
                @@ ("reward" :> R1),
            ("mode" :> "stochastic") @@ ("transition" :> TS2)
                @@ ("reward" :> R2) },
        te \in { << >>, ("terminal" :> K2), ("terminal" :> K2b) } }

\* the configurations handed to update
UpdateConfigs ==
    { ("reward" :> R2b),
      ("terminal" :> K2b),
      ("transition" :> TD1) @@ ("reward" :> R1) @@ ("terminal" :> K1) }

InitMdp ==
    /\ InitEnv
    /\ cfg = << >>
    /\ m \in { out.mdp : out \in UNION { from_config(c, 0)
                                        : c \in WellFormedConfigs } }
    /\ WellFormed(m)
    /\ st = NoMdp
    /\ mrng = 0
    /\ mret = [op |-> "none"]
    /\ calls = 0

Counted(n) == IF n > MaxCalls THEN MaxCalls + 1 ELSE n

\* m.step(action, np_random)
MdpStep ==
    \E action \in 0..MaxAction :
        /\ st = NoMdp
        /\ \E out \in step(m, action, mrng) :
             /\ m' = out.mdp
             /\ mrng' = out.rng
             /\ mret' = [op |-> "step", raised |-> out.raised,
                         action |-> action, ret |-> out.ret]
             /\ calls' = IF out.raised = "none"
                         THEN Counted(calls + 1) ELSE calls
        /\ UNCHANGED << cfg, st >>
        /\ UNCHANGED evars

\* m.reset()
MdpReset ==
    /\ st = NoMdp
    /\ m' = reset(m)
    /\ mret' = [op |-> "reset", raised |-> "none", state |-> reset(m).state]
    /\ calls' = 0
    /\ UNCHANGED << cfg, st, mrng >>
    /\ UNCHANGED evars

\* m.randomize(np_random), on a model of at most MaxDraws table entries
MdpRandomize ==
    /\ st = NoMdp
    /\ NpSize(m.transition) + NpSize(m.reward) <= MaxDraws
    /\ \E out \in randomize(m, mrng) :
         /\ m' = out.mdp
         /\ mrng' = out.rng
    /\ mret' = [op |-> "randomize", raised |-> "none"]
    /\ calls' = MaxCalls + 1
    /\ UNCHANGED << cfg, st >>
    /\ UNCHANGED evars

\* m.update(config)
MdpUpdate ==
    \E config \in UpdateConfigs :
        /\ st = NoMdp
        /\ Modelled(update(m, config))
        /\ m' = update(m, config)
        /\ mret' = [op |-> "update", raised |-> "none"]
        /\ calls' = MaxCalls + 1
        /\ UNCHANGED << cfg, st, mrng >>
        /\ UNCHANGED evars

\* st = StochasticMDP.from_deterministic(m)
Convert ==
    /\ st = NoMdp
    /\ WellFormedDeterministic(m)
    /\ st' = from_deterministic(m)
    /\ mret' = [op |-> "from_deterministic", raised |-> "none"]
    /\ UNCHANGED << cfg, m, mrng, calls >>
    /\ UNCHANGED evars

\* m.reset() and st.reset()
LockReset ==
    /\ st # NoMdp
    /\ m' = reset(m)
    /\ st' = reset(st)
    /\ mret' = [op |-> "lockreset", raised |-> "none",
                state |-> reset(m).state, st_state |-> reset(st).state]
    /\ calls' = 0
    /\ UNCHANGED << cfg, mrng >>
    /\ UNCHANGED evars

\* m.step(action, np_random) and st.step(action, np_random), both models
\* having been reset together
LockStep ==
    \E action \in 0..MaxAction :
        /\ st # NoMdp
        /\ mret.op \in {"lockreset", "lockstep"}
        /\ \E out \in step(m, action, mrng) :
             \E st_out \in step(st, action, out.rng) :
                /\ m' = out.mdp
                /\ st' = st_out.mdp
                /\ mrng' = st_out.rng
                /\ mret' = [op |-> "lockstep", raised |-> out.raised,
                            action |-> action, ret |-> out.ret,
                            st_raised |-> st_out.raised,
                            st_ret |-> st_out.ret]
                /\ calls' = IF out.raised = "none"
                            THEN Counted(calls + 1) ELSE calls
        /\ UNCHANGED cfg
        /\ UNCHANGED evars

NextMdp ==
    \/ MdpStep \/ MdpReset \/ MdpRandomize \/ MdpUpdate
    \/ Convert \/ LockReset \/ LockStep

\* a model is stepped, reset, randomized, updated and converted
SpecMdp == InitMdp /\ [][NextMdp]_vars

\* ------------------------------- a model built, randomized and stepped
\* the action is an index of the second axis, the state of the first
ValidAction(mdp, action) == action \in 0..(mdp.transition.shape[2] - 1)
ValidState(mdp) == mdp.state \in 0..(Shape0(mdp.transition) - 1)
AllZero(arr) == \A k \in 1..NpSize(arr) : arr.data[k] = 0

\* the well-formed configurations, with the random flag absent or set; the
\* flag is set on tables of at most MaxDraws entries
RandConfigs ==
    { DictUpdate(c, ra)
      : c \in { w \in WellFormedConfigs :
                  \A out \in from_config(w, 0) : WellFormed(out.mdp) },
        ra \in { << >>, ("random" :> TRUE) } }

InitRand ==
    /\ InitEnv
    /\ cfg \in RandConfigs
    /\ Get(cfg, "random", FALSE)
         => Cardinality(DOMAIN cfg["transition"])
              + Cardinality(DOMAIN cfg["reward"]) <= MaxDraws
    /\ \E out \in from_config(cfg, 0) :
         /\ m = out.mdp
         /\ mrng = out.rng
    /\ st = NoMdp
    /\ mret = [op |-> "from_config", raised |-> "none"]
    /\ calls = 0

\* m.step(action, np_random) with 0 <= action < A
ValidStep ==
    \E action \in 0..MaxAction :
        /\ ValidAction(m, action)
        /\ \E out \in step(m, action, mrng) :
             /\ m' = out.mdp
             /\ mrng' = out.rng
             /\ mret' = [op |-> "step", raised |-> out.raised,
                         action |-> action, ret |-> out.ret]
             /\ calls' = IF out.raised = "none"
                         THEN Counted(calls + 1) ELSE calls
        /\ UNCHANGED << cfg, st >>
        /\ UNCHANGED evars

NextRand == ValidStep \/ MdpReset \/ MdpRandomize

\* a model built from a well-formed configuration is driven by reset,
\* randomize and step with valid actions
SpecRand == InitRand /\ [][NextRand]_vars

\* --------------------------- an environment configured once and driven
\* the well-formed tables with terminal absent, empty or given
DefaultConfigs ==
    { c \in { DictUpdate(w, te)
              : w \in { v \in WellFormedConfigs : "terminal" \notin DOMAIN v },
                te \in { << >>, ("terminal" :> EmptyList),
                         ("terminal" :> K2) } } :
        \A out \in from_config(c, 0) : WellFormed(out.mdp) }

InitDefault ==
    /\ InitEnv
    /\ cfg \in DefaultConfigs
    /\ m = NoMdp
    /\ st = NoMdp
    /\ mrng = 0
    /\ mret = [op |-> "none"]
    /\ calls = 0

\* env.configure(cfg) on the environment as constructed
ConfigureFrom ==
    /\ ret.op = "init"
    /\ configure("o", cfg)
    /\ UNCHANGED mvars

NextDefault == ConfigureFrom \/ Reset \/ Step

\* an environment is configured with a full configuration and driven past
\* MAX_STEPS
SpecDefault == InitDefault /\ [][NextDefault]_vars

\* ===================================================================
\* Properties
\* ===================================================================
\* the tables of spec section 8, scenario 6
ScenarioModel(mdp) ==
    /\ mdp.variant = "deterministic"
    /\ ToList(mdp.transition) = L2(<< <<1>>, <<0>> >>)
    /\ ToList(mdp.reward) = L2(<< <<5 * Unit>>, <<1 * Unit>> >>)
    /\ ToList(mdp.terminal) = L1(<<0, 1>>)

\* a step of a deterministic model returns the reward and the terminal flag
\* of the state it leaves and moves to, and returns, transition[s, a]
C1_StepContract ==
    \A a \in 0..MaxAction :
        ( /\ mret'.op = "step"
          /\ mret'.action = a
          /\ WellFormedDeterministic(m)
          /\ ValidState(m)
          /\ ValidAction(m, a) )
        => /\ mret'.raised = "none"
           /\ mret'.ret.reward = At2(m.reward, m.state, a)
           /\ mret'.ret.done = At1(m.terminal, m.state)
           /\ m'.state = At2(m.transition, m.state, a)
           /\ mret'.ret.state = m'.state

\* on the scenario tables reset returns 0, the first step(0) returns
\* (1, 5, false) and the second step(0) returns (0, 1, true)
C1_Scenario ==
    ScenarioModel(m) =>
        /\ mret.op = "reset" => mret.state = 0
        /\ (mret.op = "step" /\ mret.raised = "none" /\ calls = 1)
             => /\ mret.action = 0
                /\ mret.ret.state = 1
                /\ mret.ret.reward = 5 * Unit
                /\ mret.ret.done = 0
        /\ (mret.op = "step" /\ mret.raised = "none" /\ calls = 2)
             => /\ mret.action = 0
                /\ mret.ret.state = 0
                /\ mret.ret.reward = 1 * Unit
                /\ mret.ret.done = 1

\* C1: for a deterministic model in state s and a valid action a, step
\* returns reward[s, a] and terminal[s] of the state being left and moves to
\* transition[s, a], which it returns; on the scenario tables the first
\* step(0) after reset returns (1, 5, false) and the second (0, 1, true)
C1_DeterministicStep == [][C1_StepContract]_vars /\ []C1_Scenario

\* the second step of the scenario has returned (0, 1, true)
C1_Witness ==
    /\ ScenarioModel(m)
    /\ mret.op = "step"
    /\ mret.raised = "none"
    /\ calls = 2
    /\ mret.ret.state = 0
    /\ mret.ret.done = 1

\* a returning step of "o" on an all-zero terminal vector reports done
\* exactly when the counter it read was above 10, and counts itself
C2_StepAtCap ==
    ( /\ ret'.op = "step"
      /\ ret'.env = "o"
      /\ ret'.raised = "none"
      /\ AllZero(env["o"].mdp.terminal) )
    => /\ ret'.done = (env["o"].steps > 10)
       /\ env'["o"].steps = env["o"].steps + 1

\* with the counter at k after the k-th step since reset, the step reported
\* done exactly when k >= 12
C2_TwelfthCall ==
    /\ ret.op = "reset" => env[ret.env].steps = 0
    /\ ( /\ ret.op = "step"
         /\ ret.env = "o"
         /\ ret.raised = "none"
         /\ AllZero(env["o"].mdp.terminal) )
       => (ret.done <=> env["o"].steps >= 12)

\* C2: with MAX_STEPS = 10 and an all-zero terminal vector, the k-th step
\* after a reset reports done exactly when the counter read before the
\* increment is above 10: calls 1 to 11 report false, the 12th is the first
\* to report true
C2_EpisodeCap == [][C2_StepAtCap]_vars /\ []C2_TwelfthCall

\* the 12th step since reset has reported done on an all-zero terminal
C2_Witness ==
    /\ ret.op = "step"
    /\ ret.raised = "none"
    /\ AllZero(env["o"].mdp.terminal)
    /\ env["o"].steps = 12
    /\ ret.done

Recognized(config) ==
    Get(config, "mode", NoMode) \in {"deterministic", "stochastic"}

\* the dict without one key
Without(config, key) == [k \in (DOMAIN config) \ {key} |-> config[k]]

\* the number of entries of a list along its first axis
FirstAxis(list) == Cardinality({p[1] : p \in DOMAIN list})

\* the all-zero list of length n
ZeroList(n) == [p \in {<< i - 1 >> : i \in 1..n} |-> 0]

\* config without random, every absent table written as the empty list and
\* an absent or empty terminal as zeros along the first axis of transition
Defaulted(config) ==
    ("mode" :> config["mode"])
    @@ ("transition" :> Get(config, "transition", EmptyList))
    @@ ("reward" :> Get(config, "reward", EmptyList))
    @@ ("terminal" :>
          IF Get(config, "terminal", EmptyList) = EmptyList
          THEN ZeroList(FirstAxis(Get(config, "transition", EmptyList)))
          ELSE config["terminal"])

\* the configuration carries its two required tables
Complete(config) == {"transition", "reward"} \subseteq DOMAIN config

\* C3 as stated: for every configuration c with a recognized mode and its
\* tables, terminal and random present or not, to_config(from_config(c)) is
\* c with the random key removed
C3_RoundTripAsStated ==
    (mret.op = "to_config" /\ Recognized(cfg) /\ Complete(cfg))
        => mret.value = Without(cfg, "random")

\* C3, amended: for every configuration c with a recognized mode and its
\* tables, to_config(from_config(c)) has the keys mode, transition, reward
\* and terminal; mode is c's and terminal is c's, or zeros along the first
\* axis of transition when c's is absent or empty; when random is absent
\* or false, transition and reward are c's; when random is true they are
\* redrawn over the same index tuples
C3_RoundTrip ==
    (mret.op = "to_config" /\ Recognized(cfg) /\ Complete(cfg))
        => /\ DOMAIN mret.value = {"mode", "transition", "reward", "terminal"}
           /\ mret.value["mode"] = cfg["mode"]
           /\ mret.value["terminal"] = Defaulted(cfg)["terminal"]
           /\ IF Get(cfg, "random", FALSE)
              THEN /\ DOMAIN mret.value["transition"]
                        = DOMAIN cfg["transition"]
                   /\ DOMAIN mret.value["reward"] = DOMAIN cfg["reward"]
              ELSE mret.value = Defaulted(cfg)

\* a configuration without terminal and without random has been built and
\* written back with the zero terminal added
C3_Witness ==
    /\ mret.op = "to_config"
    /\ cfg = ("mode" :> "stochastic") @@ ("transition" :> TS2)
               @@ ("reward" :> R2)
    /\ mret.value = DictUpdate(cfg, ("terminal" :> L1(<<0, 0>>)))

\* C4: in every reachable state of an environment whose tables are
\* well-formed for their own size, the current state of its model is an
\* index of the first axis of its transition table
C4_StateInRange ==
    \A e \in Envs :
        (Exists(e) /\ WellFormed(env[e].mdp)) => ValidState(env[e].mdp)

\* C5: a call on the copy "c", copy_with_config included, changes nothing of
\* "o": its model, its step counter, its random source, its configuration
C5_OriginalUntouched ==
    [][ret'.env = "c"
         => /\ env'["o"] = env["o"]
            /\ dicts'[env["o"].config] = dicts[env["o"].config]]_vars

\* every row of st is the one-hot distribution on the target of m
OneHot(det, sto) ==
    /\ sto.variant = "stochastic"
    /\ sto.transition.shape
         = << det.transition.shape[1], det.transition.shape[2],
              det.transition.shape[1] >>
    /\ \A s \in 0..(det.transition.shape[1] - 1) :
         \A a \in 0..(det.transition.shape[2] - 1) :
            \A n \in 0..(det.transition.shape[1] - 1) :
               Row3(sto.transition, s, a)[n + 1]
                 = IF n = At2(det.transition, s, a) THEN Unit ELSE 0

\* C6: st = from_deterministic(m) has one-hot rows on m's transitions and
\* m's reward and terminal tables, and stepping m and st together from a
\* reset gives, at every step and whatever the random source draws, the
\* same next state, reward and done flag in both
C6_ConversionPreservesBehaviour ==
    st # NoMdp
        => /\ OneHot(m, st)
           /\ st.reward = m.reward
           /\ st.terminal = m.terminal
           /\ mret.op \in {"lockreset", "lockstep"} => st.state = m.state
           /\ mret.op = "lockreset" => mret.st_state = mret.state
           /\ mret.op = "lockstep"
                => /\ mret.st_raised = mret.raised
                   /\ ValidAction(m, mret.action) => mret.raised = "none"
                   /\ mret.raised = "none"
                        => /\ mret.st_ret.state = mret.ret.state
                           /\ mret.st_ret.reward = mret.ret.reward
                           /\ mret.st_ret.done = mret.ret.done

\* both models have stepped together with the second action into state 1
C6_Witness ==
    /\ st # NoMdp
    /\ mret.op = "lockstep"
    /\ mret.raised = "none"
    /\ mret.action = 1
    /\ calls = 2
    /\ mret.st_ret.state = 1
    /\ mret.st_ret.done = 1

\* the model from_config is to build from a configuration that carries its
\* tables and a recognized mode and does not ask for randomize
Rebuilt(config) ==
    [variant    |-> config["mode"],
     state      |-> 0,
     transition |-> NpArray(config["transition"]),
     reward     |-> NpArray(config["reward"]),
     terminal   |-> IF "terminal" \in DOMAIN config
                    THEN NpArray(config["terminal"])
                    ELSE [shape |-> << FirstAxis(config["transition"]) >>,
                          data  |-> [i \in 1..FirstAxis(config["transition"])
                                       |-> 0]]]

\* C7: a configure(p) of "o" that succeeds with random unset or false leaves
\* the stored configuration equal to the old one overridden by the keys of
\* p, and the model equal to the one built from it: state 0, every table
\* from the stored configuration, an absent terminal all zero
C7_ConfigureRebuilds ==
    [][( /\ ret'.op = "configure"
         /\ ret'.env = "o"
         /\ ret'.raised = "none"
         /\ ~Get(dicts'[env["o"].config], "random", FALSE) )
       => LET old == dicts[env["o"].config]
              new == dicts'[env["o"].config]
              p   == ret'.arg
          IN  /\ DOMAIN new = (DOMAIN old) \cup (DOMAIN p)
              /\ \A k \in DOMAIN new :
                    new[k] = IF k \in DOMAIN p THEN p[k] ELSE old[k]
              /\ env'["o"].mdp = Rebuilt(new)]_vars

\* a configure that carries no table has succeeded on an environment whose
\* stored reward was replaced while its mode was unrecognized
C7_Witness ==
    /\ ret.op = "configure"
    /\ ret.raised = "none"
    /\ ret.arg = ("mode" :> "deterministic")
    /\ "random" \notin DOMAIN dicts[env["o"].config]
    /\ "terminal" \notin DOMAIN dicts[env["o"].config]
    /\ env["o"].mdp.reward = NpArray(R2b)
    /\ AllZero(env["o"].mdp.terminal)
    /\ env["o"].steps > 0

\* C8: copy_with_config(cfg) gives a copy whose stored configuration is cfg
\* itself, whose model state and step counter are those of the original at
\* the call, and whose tables are cfg's where cfg carries them and the
\* original model's current ones where it does not
C8_CopyUpdatesInPlace ==
    [][ret'.op = "copy_with_config"
       => LET arg  == ret'.arg
              orig == env["o"]
              copy == env'["c"]
          IN  /\ dicts'[copy.config] = arg
              /\ copy.mdp.state = orig.mdp.state
              /\ copy.steps = orig.steps
              /\ copy.mdp.variant = orig.mdp.variant
              /\ copy.mdp.transition
                   = IF "transition" \in DOMAIN arg
                     THEN NpArray(arg["transition"])
                     ELSE orig.mdp.transition
              /\ copy.mdp.reward
                   = IF "reward" \in DOMAIN arg
                     THEN NpArray(arg["reward"]) ELSE orig.mdp.reward
              /\ copy.mdp.terminal
                   = IF "terminal" \in DOMAIN arg
                     THEN NpArray(arg["terminal"])
                     ELSE orig.mdp.terminal]_vars

\* a copy has been made in state 1 after one step, with a configuration
\* that has no mode and no random key, unlike the original's
C8_Witness ==
    /\ ret.op = "copy_with_config"
    /\ env["c"].mdp.state = 1
    /\ env["c"].steps = 1
    /\ DOMAIN dicts[env["c"].config] = {"transition", "reward", "terminal"}
    /\ "random" \in DOMAIN dicts[env["o"].config]

\* from_config raises on an unrecognized mode, returning no model, and
\* on a recognized mode with the tables present returns a model of the
\* class the mode names
C9_Outcome ==
    mret.op = "from_config"
        => /\ ~Recognized(cfg) => (mret.raised = "ValueError" /\ m = NoMdp)
           /\ (Recognized(cfg) /\ Complete(cfg))
                => (mret.raised = "none" /\ m.variant = cfg["mode"])

\* from_config on an unrecognized mode consumes nothing of the source
C9_SourceKept ==
    (mret'.op = "from_config" /\ ~Recognized(cfg)) => mrng' = mrng

\* C9: from_config raises the configuration error for every configuration
\* whose mode is absent or unrecognized, whatever its other keys, returning
\* no model and consuming nothing of the random source; for a recognized
\* mode (and a configuration that carries its tables) it returns a model of
\* the matching variant
C9_UnknownModeRaises == []C9_Outcome /\ [][C9_SourceKept]_vars

\* from_config has raised on a configuration with random set and no mode
C9_Witness ==
    /\ mret.op = "from_config"
    /\ mret.raised = "ValueError"
    /\ "mode" \notin DOMAIN cfg
    /\ Get(cfg, "random", FALSE)
    /\ "transition" \in DOMAIN cfg

\* C10: the step counter of an environment is never negative, is 0 after
\* reset, is one more after every step that returns, whatever done it
\* reports, and is left as it was by configure
C10_StepCounter ==
    /\ [](\A e \in Envs : Exists(e) => env[e].steps >= 0)
    /\ [][/\ ret'.op = "reset" => env'["o"].steps = 0
          /\ (ret'.op = "step" /\ ret'.raised = "none")
               => env'["o"].steps = env["o"].steps + 1
          /\ (ret'.op = "step" /\ ret'.raised # "none")
               => env'["o"].steps = env["o"].steps
          /\ ret'.op = "configure"
               => env'["o"].steps = env["o"].steps]_vars

\* a configure has put the model back to state 0 in the middle of an
\* episode, the counter staying above 0
C10_Witness ==
    /\ ret.op = "configure"
    /\ ret.raised = "none"
    /\ env["o"].steps = 12
    /\ env["o"].mdp.state = 0
    /\ Shape0(env["o"].mdp.transition) = 2

\* a returning step of a stochastic model moves to an index of the first
\* axis that has positive weight in the row of the state and action it was
\* called with, and returns it with reward[s, a] and terminal[s] of the
\* state left
C11_StepContract ==
    \A a \in 0..MaxAction :
        ( /\ mret'.op = "step"
          /\ mret'.action = a
          /\ mret'.raised = "none"
          /\ m.variant = "stochastic" )
        => /\ ValidAction(m, a)
           /\ m'.state \in 0..(Shape0(m.transition) - 1)
           /\ Row3(m.transition, m.state, a)[m'.state + 1] > 0
           /\ mret'.ret.state = m'.state
           /\ mret'.ret.reward = At2(m.reward, m.state, a)
           /\ mret'.ret.done = At1(m.terminal, m.state)

\* a well-formed stochastic model in a valid state steps without raising
\* on every valid action
C11_StepReturns ==
    \A a \in 0..MaxAction :
        ( /\ mret'.op = "step"
          /\ mret'.action = a
          /\ WellFormedStochastic(m)
          /\ ValidState(m)
          /\ ValidAction(m, a) )
        => mret'.raised = "none"

\* C11: for a stochastic model in state s and a valid action a, the next
\* state chosen by step is an index n of the first axis with
\* transition[s, a, n] > 0, the returned reward is reward[s, a] and the
\* returned done is terminal[s] of the state being left
C11_StochasticSupport ==
    [][C11_StepContract /\ C11_StepReturns]_vars

\* a stochastic model has stepped from state 1, whose row has two indices of
\* positive weight, and stayed in state 1
C11_Witness ==
    /\ m.variant = "stochastic"
    /\ ToList(m.transition) = TS2
    /\ mret.op = "step"
    /\ mret.raised = "none"
    /\ calls = 2
    /\ mret.ret.state = 1
    /\ mret.ret.reward = 1 * Unit

\* the three tables and the class of a model
Tables(mdp) ==
    << mdp.variant, mdp.transition, mdp.reward, mdp.terminal >>

\* C12: step and reset change at most the current state of the model and
\* none of its tables, so the snapshot step returns is to_config() taken
\* just before it; randomize and update leave the current state as it was,
\* and randomize leaves terminal as it was
C12_Frame ==
    [][/\ mret'.op \in {"step", "reset", "lockstep", "lockreset"}
            => Tables(m') = Tables(m)
       /\ (mret'.op = "step" /\ mret'.raised = "none")
            => mret'.ret.info = to_config(m)
       /\ (mret'.op = "step" /\ mret'.raised # "none") => m' = m
       /\ mret'.op \in {"randomize", "update"}
            => (m'.state = m.state /\ m'.variant = m.variant)
       /\ mret'.op = "randomize" => m'.terminal = m.terminal]_vars

\* a model in state 1 with a terminal flag set has been randomized into
\* other tables, and is still in state 1
C12_Witness ==
    /\ mret.op = "randomize"
    /\ m.state = 1
    /\ ToList(m.terminal) = K2b
    /\ ToList(m.transition) # TD2
    /\ ToList(m.reward) # R2

\* C13: on a model built by from_config from a well-formed configuration,
\* random set or not, and driven by reset, randomize and step with valid
\* actions, every step call returns a result
C13_StepNeverFails ==
    mret.op = "step" => mret.raised = "none"

\* the shapes of the tables of a model
Shapes(mdp) ==
    << mdp.transition.shape, mdp.reward.shape, mdp.terminal.shape >>

\* randomize keeps the shapes of the tables, and on a deterministic model
\* draws every entry of transition among the indices of its first axis
C14_Randomize ==
    mret'.op = "randomize"
        => /\ Shapes(m') = Shapes(m)
           /\ NpSize(m'.transition) = NpSize(m.transition)
           /\ NpSize(m'.reward) = NpSize(m.reward)
           /\ m.variant = "deterministic"
                => \A k \in 1..NpSize(m'.transition) :
                      m'.transition.data[k] \in 0..(Shape0(m.transition) - 1)

\* a deterministic model stays well-formed and in a state of its table, and
\* its steps with valid actions return
C14_StateKept ==
    m.variant = "deterministic"
        => /\ WellFormedDeterministic(m)
           /\ ValidState(m)
           /\ mret.op = "step" => mret.raised = "none"

\* C14: randomize keeps the shapes of transition and reward for both
\* variants; for the deterministic variant every new transition entry is
\* an index of the first axis of the table as it was, so a deterministic
\* model with 0 <= state < S keeps it through randomize and any steps with
\* valid actions
C14_RandomizeShapes == [][C14_Randomize]_vars /\ []C14_StateKept

\* a deterministic model whose transition table was drawn by randomize has
\* stepped into state 1
C14_Witness ==
    /\ m.variant = "deterministic"
    /\ ToList(m.transition) = L2(<< <<1>>, <<1>> >>)
    /\ "random" \notin DOMAIN cfg
    /\ mret.op = "step"
    /\ mret.raised = "none"
    /\ m.state = 1

\* the stored configuration of "o" has no terminal, or an empty one
NoTerminal(config) == Get(config, "terminal", EmptyList) = EmptyList

\* the model built from a configuration without terminal has one flag per
\* state, each of them 0
C15_ZeroTerminal ==
    NoTerminal(dicts[env["o"].config])
        => env["o"].mdp.terminal
             = NpZeros(FirstAxis(dicts[env["o"].config]["transition"]))

\* a returning step of the environment on such a model reports done exactly
\* when the counter it read was above MAX_STEPS
C15_DoneByCapOnly ==
    ( /\ ret'.op = "step"
      /\ ret'.raised = "none"
      /\ NoTerminal(dicts[env["o"].config]) )
    => ret'.done = (env["o"].steps > MAX_STEPS)

\* C15: a model built by from_config from a configuration whose terminal is
\* absent or empty has a terminal vector of length S, the first axis of the
\* transition table, with every flag false; its own step reports done in no
\* state, and an environment built on it reports done only through the
\* step-count cap
C15_DefaultTerminal == []C15_ZeroTerminal /\ [][C15_DoneByCapOnly]_vars

\* an environment configured with an empty terminal list on two states has
\* reported done on its 12th step, from state 1
C15_Witness ==
    /\ "terminal" \in DOMAIN dicts[env["o"].config]
    /\ dicts[env["o"].config]["terminal"] = EmptyList
    /\ dicts[env["o"].config]["mode"] = "stochastic"
    /\ env["o"].mdp.terminal = NpZeros(2)
    /\ ret.op = "step"
    /\ ret.raised = "none"
    /\ env["o"].steps = 12
    /\ ret.done

\* a step that reports done = false read a counter of at most MAX_STEPS,
\* a step made with the counter above MAX_STEPS reports done = true, and
\* every returning step counts itself and leaves the model where the
\* model's own step puts it
C16_Step ==
    (ret'.op = "step" /\ ret'.raised = "none")
        => /\ ~ret'.done => env["o"].steps <= MAX_STEPS
           /\ env["o"].steps > MAX_STEPS => ret'.done
           /\ env'["o"].steps = env["o"].steps + 1
           /\ \E out \in step(env["o"].mdp, ret'.action,
                                env["o"].np_random) :
                /\ out.raised = "none"
                /\ env'["o"].mdp = out.mdp
                /\ ret'.state = out.mdp.state

\* nothing but reset takes the counter down
C16_CounterKept ==
    ret'.op # "reset" => env'["o"].steps >= env["o"].steps

\* C16: in any run of step and configure calls between two resets, the
\* counter counts the returning steps and only reset takes it down, a step
\* reporting done = false has read a counter of at most 10, so at most 11
\* steps report it, and every step made with the counter above 10 reports
\* done = true; step never resets the counter or the model state, so a step
\* after done still moves the model
C16_CapLatches == [][C16_Step /\ C16_CounterKept]_vars

\* a second step after the cap was passed has reported done and moved the
\* two-state model of the scenario again
C16_Witness ==
    /\ ret.op = "step"
    /\ ret.raised = "none"
    /\ ret.done
    /\ env["o"].steps = 13
    /\ ToList(env["o"].mdp.transition) = TD2
    /\ env["o"].mdp.variant = "deterministic"
    /\ env["o"].mdp.state = 1
    /\ ret.state = 1

\* C17: in every reachable state of an environment, after construction,
\* configure (returning or raising) and copy_with_config, its stored
\* configuration has a mode key and the mode its model writes in to_config
\* is that stored mode
C17_ModeConsistent ==
    \A e \in Envs :
        Exists(e)
            => /\ "mode" \in DOMAIN dicts[env[e].config]
               /\ to_config(env[e].mdp)["mode"]
                    = dicts[env[e].config]["mode"]

\* C18: a configure that raises leaves the environment as it was before the
\* call: the stored configuration, the model, the step counter and the
\* random source
C18_FailedConfigureAtomic ==
    [][(ret'.op = "configure" /\ ret'.raised # "none")
         => (env' = env /\ dicts' = dicts)]_vars

====
